---- MODULE Spec2Model ----
(***************************************************************************)
(* Model of the two static preview servers of the repository:             *)
(*   src/preview-server.py          (PORT 8080, DIRECTORY "public")        *)
(*   src/aws-version/preview-aws.py (PORT 8081, DIRECTORY "frontend")      *)
(*                                                                         *)
(* One run of main() is modelled statement by statement.  The variable    *)
(* script selects which of the two files runs.  The calls into the Python  *)
(* standard library (os.path.exists, socketserver.TCPServer,              *)
(* webbrowser.open, the request handler inherited from                    *)
(* http.server.SimpleHTTPRequestHandler) are modelled by their outcomes.   *)
(* A keyboard interrupt (SIGINT) is the exception KeyboardInterrupt raised *)
(* at the statement main() is executing when the signal is delivered.     *)
(***************************************************************************)
EXTENDS Integers, Sequences, FiniteSets, TLC

\* Number of interrupt signals delivered to one run.
MaxInterrupts == 2

Scripts == {"preview-server", "preview-aws"}

VARIABLES
    script,         \* which file is running
    dirExists,      \* os.path.exists(DIRECTORY) at startup
    pc,             \* statement main() is at
    socket,         \* httpd.socket: "none", "listening", "closed"
    bound,          \* the listener was bound (the with-block was entered)
    closeCount,     \* number of server_close() calls
    out,            \* lines printed on the console
    browserResult,  \* outcome of webbrowser.open(url)
    response,       \* last response written to a client
    exc,            \* exception propagating out of main(), "none" if none
    signals         \* statements at which an interrupt was delivered

vars == <<script, dirExists, pc, socket, bound, closeCount, out,
          browserResult, response, exc, signals>>

----------------------------------------------------------------------------
(* Configuration *)

PORT(s) == IF s = "preview-server" THEN 8080 ELSE 8081

DIRECTORY(s) == IF s = "preview-server" THEN "public" ELSE "frontend"

\* url = f"http://localhost:{PORT}"
url(s) == "http://localhost:" \o ToString(PORT(s))

Line(text, arg) == [text |-> text, arg |-> arg]

MissingDirectoryLines(s) ==
    IF s = "preview-server"
    THEN << Line("Directory not found!", DIRECTORY(s)),
            Line("Make sure you're running this from the project root.", "") >>
    ELSE << Line("Directory not found!", DIRECTORY(s)) >>

Banner(s) ==
    IF s = "preview-server"
    THEN << Line("Resume website preview server starting...", ""),
            Line("Local URL:", url(s)),
            Line("Serving:", DIRECTORY(s)),
            Line("Press Ctrl+C to stop", "") >>
    ELSE << Line("AWS Resume website preview server starting...", ""),
            Line("Local URL:", url(s)),
            Line("Press Ctrl+C to stop", "") >>

OpeningLine(s) == Line("Opening in your browser", url(s))

FallbackLine(s) == Line("Manually open in your browser", url(s))

FarewellLine == Line("Server stopped!", "")

Printed(line) == \E i \in 1..Len(out) : out[i] = line

----------------------------------------------------------------------------
(* Request handling: class Handler(http.server.SimpleHTTPRequestHandler)   *)

Methods == {"GET", "HEAD", "POST"}

\* "" is a request line without a path (a single word).
Paths == {"", "/", "/index.html", "/assets", "/missing"}

\* "" is a request line without a version (two words, an HTTP/0.9 simple
\* request); "FOO" is a version that does not start with HTTP/.
Versions == {"", "HTTP/1.0", "HTTP/1.1", "HTTP/3.0", "FOO"}

Requests ==
    { r \in [method : Methods, path : Paths, version : Versions] :
        r.path = "" => r.version = "" }

\* What the served directory holds.
PathKind(path) ==
    CASE path = "/"           -> "directory"
      [] path = "/index.html" -> "file"
      [] path = "/assets"     -> "directory_no_slash"
      [] OTHER                -> "missing"

\* The response being built.  code is the status the handler chose,
\* statusLine tells whether a status line was written, headers are the
\* header lines written, flushed tells whether the header block was sent.
NoResponse ==
    [request_version |-> "", command |-> "", code |-> 0,
     statusLine |-> FALSE, headers |-> <<>>, flushed |-> FALSE,
     body |-> FALSE]

NewResponse(request_version, command) ==
    [NoResponse EXCEPT !.request_version = request_version,
                       !.command = command]

\* BaseHTTPRequestHandler.send_header: nothing is buffered for HTTP/0.9.
send_header(r, keyword, value) ==
    IF r.request_version # "HTTP/0.9"
    THEN [r EXCEPT !.headers = Append(@, <<keyword, value>>)]
    ELSE r

\* BaseHTTPRequestHandler.send_response: status line, Server and Date.
send_response(r, code) ==
    LET r1 == IF r.request_version # "HTTP/0.9"
              THEN [r EXCEPT !.code = code, !.statusLine = TRUE]
              ELSE [r EXCEPT !.code = code]
    IN send_header(send_header(r1, "Server", "SimpleHTTP"), "Date", "now")

\* BaseHTTPRequestHandler.end_headers, reached through super().end_headers().
super_end_headers(r) ==
    IF r.request_version # "HTTP/0.9"
    THEN [r EXCEPT !.flushed = TRUE]
    ELSE r

\* end_headers without the Access-Control-Allow-Origin line.
end_headers_NoOrigin(s, r) ==
    IF s = "preview-server"
    THEN super_end_headers(
           send_header(
             send_header(r, "Access-Control-Allow-Methods",
                         "GET, POST, OPTIONS"),
             "Access-Control-Allow-Headers", "Content-Type"))
    ELSE super_end_headers(r)

\* end_headers with the preview-server.py header lines in both scripts and
\* a shortened method list.
end_headers_SameInBoth(s, r) ==
    super_end_headers(
      send_header(
        send_header(
          send_header(r, "Access-Control-Allow-Origin", "*"),
          "Access-Control-Allow-Methods", "GET, POST"),
        "Access-Control-Allow-Headers", "Content-Type"))

\* Handler.end_headers of the running script.
end_headers(s, r) ==
    IF s = "preview-server"
    THEN super_end_headers(
           send_header(
             send_header(
               send_header(r, "Access-Control-Allow-Origin", "*"),
               "Access-Control-Allow-Methods", "GET, POST, OPTIONS"),
             "Access-Control-Allow-Headers", "Content-Type"))
    ELSE super_end_headers(
           send_header(r, "Access-Control-Allow-Origin", "*"))

\* BaseHTTPRequestHandler.send_error.
send_error(s, r, code) ==
    LET r1 == send_header(send_response(r, code), "Connection", "close")
        r2 == send_header(send_header(r1, "Content-Type", "text/html"),
                          "Content-Length", "body")
        r3 == end_headers(s, r2)
    IN [r3 EXCEPT !.body = (r.command # "HEAD")]

\* Number of words of the request line.
Words(req) == IF req.path = "" THEN 1 ELSE IF req.version = "" THEN 2 ELSE 3

\* BaseHTTPRequestHandler.parse_request: the request version and command
\* the handler ends up with, and the error it answered with (0 if none).
parse_request(req) ==
    IF Words(req) = 3 /\ req.version = "FOO"
    THEN [request_version |-> "HTTP/0.9", command |-> "", error |-> 400]
    ELSE IF Words(req) = 3 /\ req.version = "HTTP/3.0"
    THEN [request_version |-> "HTTP/0.9", command |-> "", error |-> 505]
    ELSE IF Words(req) = 1
    THEN [request_version |-> "HTTP/0.9", command |-> "", error |-> 400]
    ELSE IF Words(req) = 2 /\ req.method # "GET"
    THEN [request_version |-> "HTTP/0.9", command |-> "", error |-> 400]
    ELSE [request_version |-> IF Words(req) = 3 THEN req.version
                              ELSE "HTTP/0.9",
          command |-> req.method, error |-> 0]

\* SimpleHTTPRequestHandler.send_head, followed by the body for GET.
send_head(s, r, path) ==
    CASE PathKind(path) = "missing" -> send_error(s, r, 404)
      [] PathKind(path) = "directory_no_slash" ->
           end_headers(s,
             send_header(
               send_header(send_response(r, 301), "Location", "slash"),
               "Content-Length", "0"))
      [] OTHER ->
           LET r1 == send_header(
                       send_header(
                         send_header(send_response(r, 200),
                                     "Content-type", "text/html"),
                         "Content-Length", "body"),
                       "Last-Modified", "mtime")
           IN [end_headers(s, r1) EXCEPT !.body = (r.command = "GET")]

\* BaseHTTPRequestHandler.handle_one_request with the do_GET and do_HEAD
\* of SimpleHTTPRequestHandler.
handle_one_request(s, req) ==
    LET p == parse_request(req)
        r == NewResponse(p.request_version, p.command)
    IN IF p.error # 0 THEN send_error(s, r, p.error)
       ELSE IF p.command \notin {"GET", "HEAD"} THEN send_error(s, r, 501)
       ELSE send_head(s, r, req.path)

HasHeader(r, keyword, value) ==
    \E i \in 1..Len(r.headers) : r.headers[i] = <<keyword, value>>

HeaderNames(r) == { r.headers[i][1] : i \in 1..Len(r.headers) }

----------------------------------------------------------------------------
(* main() *)

Terminal == {"returned_missing", "returned", "unhandled"}

Init ==
    /\ script \in Scripts
    /\ dirExists \in BOOLEAN
    /\ pc = "start"
    /\ socket = "none"
    /\ bound = FALSE
    /\ closeCount = 0
    /\ out = <<>>
    /\ browserResult = "none"
    /\ response = NoResponse
    /\ exc = "none"
    /\ signals = <<>>

\* if __name__ == "__main__": main()
Main ==
    /\ pc = "start"
    /\ pc' = "check"
    /\ UNCHANGED <<script, dirExists, socket, bound, closeCount, out,
                   browserResult, response, exc, signals>>

\* the directory check without its return statement
CheckDirectory_NoReturn ==
    /\ pc = "check"
    /\ out' = IF ~dirExists THEN out \o MissingDirectoryLines(script) ELSE out
    /\ pc' = "construct"
    /\ UNCHANGED <<script, dirExists, socket, bound, closeCount,
                   browserResult, response, exc, signals>>

\* if not os.path.exists(DIRECTORY): print(...); return
CheckDirectory ==
    /\ pc = "check"
    /\ IF ~dirExists
       THEN /\ out' = out \o MissingDirectoryLines(script)
            /\ pc' = "returned_missing"
       ELSE /\ out' = out
            /\ pc' = "construct"
    /\ UNCHANGED <<script, dirExists, socket, bound, closeCount,
                   browserResult, response, exc, signals>>

\* the with-statement wrapped in a try whose except block also takes the
\* OSError of a failed bind and prints the farewell
Construct_Caught ==
    /\ pc = "construct"
    /\ \E portFree \in BOOLEAN :
         IF portFree
         THEN /\ socket' = "listening"
              /\ bound' = TRUE
              /\ closeCount' = closeCount
              /\ exc' = exc
              /\ pc' = "banner"
         ELSE /\ socket' = "closed"
              /\ bound' = FALSE
              /\ closeCount' = closeCount + 1
              /\ exc' = "OSError"
              /\ pc' = "farewell"
    /\ UNCHANGED <<script, dirExists, out, browserResult, response, signals>>

\* with socketserver.TCPServer(("", PORT), Handler) as httpd:
\* the constructor binds and listens; when the bind fails (port in use) it
\* closes the socket it created and the OSError leaves main().
Construct ==
    /\ pc = "construct"
    /\ \E portFree \in BOOLEAN :
         IF portFree
         THEN /\ socket' = "listening"
              /\ bound' = TRUE
              /\ closeCount' = closeCount
              /\ exc' = exc
              /\ pc' = "banner"
         ELSE /\ socket' = "closed"
              /\ bound' = FALSE
              /\ closeCount' = closeCount + 1
              /\ exc' = "OSError"
              /\ pc' = "unhandled"
    /\ UNCHANGED <<script, dirExists, out, browserResult, response, signals>>

\* the print(...) lines of the startup banner
PrintBanner ==
    /\ pc = "banner"
    /\ out' = out \o Banner(script)
    /\ pc' = "browser"
    /\ UNCHANGED <<script, dirExists, socket, bound, closeCount,
                   browserResult, response, exc, signals>>

\* the browser launch without the try statement around it
OpenBrowser_NoTry ==
    /\ pc = "browser"
    /\ \E result \in {"opened", "unavailable", "raised"} :
         /\ browserResult' = result
         /\ IF result = "raised"
            THEN /\ out' = out
                 /\ exc' = "Error"
                 /\ pc' = "exit_with"
            ELSE /\ out' = Append(out, OpeningLine(script))
                 /\ exc' = exc
                 /\ pc' = "serve"
    /\ UNCHANGED <<script, dirExists, socket, bound, closeCount,
                   response, signals>>

\* try: webbrowser.open(url); print("Opening ...")
\* except: print("Manually open ...")
\* webbrowser.open returns True when a browser was launched, returns False
\* when no browser could be launched, or raises.
OpenBrowser ==
    /\ pc = "browser"
    /\ \E result \in {"opened", "unavailable", "raised"} :
         /\ browserResult' = result
         /\ out' = Append(out, IF result = "raised"
                               THEN FallbackLine(script)
                               ELSE OpeningLine(script))
    /\ pc' = "serve"
    /\ UNCHANGED <<script, dirExists, socket, bound, closeCount,
                   response, exc, signals>>

\* httpd.serve_forever(): one request is accepted, handled and answered
ServeRequest ==
    /\ pc = "serve"
    /\ socket = "listening"
    /\ \E req \in Requests :
         response' = handle_one_request(script, req)
    /\ UNCHANGED <<script, dirExists, pc, socket, bound, closeCount, out,
                   browserResult, exc, signals>>

\* the except block inside a loop that calls serve_forever() again
PrintFarewell_Restart ==
    /\ pc = "farewell"
    /\ out' = Append(out, FarewellLine)
    /\ pc' = "serve"
    /\ UNCHANGED <<script, dirExists, socket, bound, closeCount,
                   browserResult, response, exc, signals>>

\* except KeyboardInterrupt: print("Server stopped!")
PrintFarewell ==
    /\ pc = "farewell"
    /\ out' = Append(out, FarewellLine)
    /\ pc' = "exit_with"
    /\ UNCHANGED <<script, dirExists, socket, bound, closeCount,
                   browserResult, response, exc, signals>>

\* no with-statement: server_close() is called only on the path on which
\* no exception is pending
ExitWith_Leak ==
    /\ pc = "exit_with"
    /\ socket' = IF exc = "none" THEN "closed" ELSE socket
    /\ closeCount' = IF exc = "none" THEN closeCount + 1 ELSE closeCount
    /\ pc' = IF exc = "none" THEN "returned" ELSE "unhandled"
    /\ UNCHANGED <<script, dirExists, bound, out, browserResult, response,
                   exc, signals>>

\* leaving the with-block: TCPServer.__exit__ calls server_close(); main()
\* then returns, or the pending exception goes on out of main()
ExitWith ==
    /\ pc = "exit_with"
    /\ socket' = "closed"
    /\ closeCount' = closeCount + 1
    /\ pc' = IF exc = "none" THEN "returned" ELSE "unhandled"
    /\ UNCHANGED <<script, dirExists, bound, out, browserResult, response,
                   exc, signals>>

----------------------------------------------------------------------------
(* Keyboard interrupts *)

Deliver == /\ Len(signals) < MaxInterrupts
           /\ signals' = Append(signals, pc)

\* before the with-block: nothing catches the KeyboardInterrupt
InterruptStartup ==
    /\ pc \in {"check", "construct"}
    /\ Deliver
    /\ exc' = "KeyboardInterrupt"
    /\ pc' = "unhandled"
    /\ UNCHANGED <<script, dirExists, socket, bound, closeCount, out,
                   browserResult, response>>

\* while printing the banner: inside the with-block, outside both try
\* statements; some of the banner lines have been printed
InterruptBanner ==
    /\ pc = "banner"
    /\ Deliver
    /\ \E k \in 0..(Len(Banner(script)) - 1) :
         out' = out \o SubSeq(Banner(script), 1, k)
    /\ exc' = "KeyboardInterrupt"
    /\ pc' = "exit_with"
    /\ UNCHANGED <<script, dirExists, socket, bound, closeCount,
                   browserResult, response>>

\* inside webbrowser.open(url): the bare except: catches KeyboardInterrupt
\* as it catches every exception
InterruptBrowser ==
    /\ pc = "browser"
    /\ Deliver
    /\ browserResult' = "interrupted"
    /\ out' = Append(out, FallbackLine(script))
    /\ pc' = "serve"
    /\ UNCHANGED <<script, dirExists, socket, bound, closeCount,
                   response, exc>>

\* webbrowser.open raised and the interrupt arrives in the except: block,
\* before its print has written the line
InterruptFallback ==
    /\ pc = "browser"
    /\ Deliver
    /\ browserResult' = "raised"
    /\ exc' = "KeyboardInterrupt"
    /\ pc' = "exit_with"
    /\ UNCHANGED <<script, dirExists, socket, bound, closeCount, out,
                   response>>

\* the KeyboardInterrupt swallowed inside the serve loop
InterruptServe_Absorbed ==
    /\ pc = "serve"
    /\ Deliver
    /\ pc' = "serve"
    /\ UNCHANGED <<script, dirExists, socket, bound, closeCount, out,
                   browserResult, response, exc>>

\* inside httpd.serve_forever(): except KeyboardInterrupt catches it
InterruptServe ==
    /\ pc = "serve"
    /\ Deliver
    /\ pc' = "farewell"
    /\ UNCHANGED <<script, dirExists, socket, bound, closeCount, out,
                   browserResult, response, exc>>

\* inside the except KeyboardInterrupt block, before its print has
\* written the line
InterruptFarewell ==
    /\ pc = "farewell"
    /\ Deliver
    /\ exc' = "KeyboardInterrupt"
    /\ pc' = "exit_with"
    /\ UNCHANGED <<script, dirExists, socket, bound, closeCount, out,
                   browserResult, response>>

Next ==
    \/ Main
    \/ CheckDirectory
    \/ Construct
    \/ PrintBanner
    \/ OpenBrowser
    \/ ServeRequest
    \/ PrintFarewell
    \/ ExitWith
    \/ InterruptStartup
    \/ InterruptBanner
    \/ InterruptBrowser
    \/ InterruptFallback
    \/ InterruptServe
    \/ InterruptFarewell

Spec == Init /\ [][Next]_vars

\* The interpreter goes on executing main(): once the KeyboardInterrupt is
\* caught the except block runs, and the with-block is left.
LiveSpec ==
    /\ Init
    /\ [][Next]_vars
    /\ WF_vars(PrintFarewell)
    /\ WF_vars(ExitWith)

----------------------------------------------------------------------------
(* Lifecycle of section 4.1 of the specification, read off main() *)

Lifecycle ==
    CASE pc = "start"                    -> "NotStarted"
      [] pc \in {"check", "construct"}   -> "Validating"
      [] pc \in {"banner", "browser"}    -> "Listening"
      [] pc = "serve"                    -> "Serving"
      [] pc \in {"farewell", "exit_with"} -> "ShuttingDown"
      [] pc = "returned"                 -> "Stopped"
      [] pc = "returned_missing"         -> "Failed"
      [] pc = "unhandled"                -> IF bound THEN "Stopped"
                                            ELSE "Failed"

LifecycleNext(from) ==
    CASE from = "NotStarted"   -> {"Validating"}
      [] from = "Validating"   -> {"Validating", "Failed", "Listening"}
      [] from = "Listening"    -> {"Listening", "Serving", "ShuttingDown"}
      [] from = "Serving"      -> {"Serving", "ShuttingDown"}
      [] from = "ShuttingDown" -> {"ShuttingDown", "Stopped"}
      [] OTHER                 -> {}

InterruptedAfterBind ==
    \E i \in 1..Len(signals) :
        signals[i] \in {"banner", "browser", "serve", "farewell"}

LastSignal == IF signals = <<>> THEN "none" ELSE signals[Len(signals)]

----------------------------------------------------------------------------
(* Properties *)

\* C1: when the root directory does not exist, no socket is ever created
\* or bound, no browser launch is attempted, no request is answered, and
\* the run that returns from main() has printed the error message.
C1_MissingDirectoryNeverListens ==
    ~dirExists =>
        /\ socket = "none"
        /\ ~bound
        /\ browserResult = "none"
        /\ response = NoResponse
        /\ pc \in {"start", "check", "returned_missing", "unhandled"}
        /\ pc = "returned_missing" =>
              Printed(Line("Directory not found!", DIRECTORY(script)))

C1_Witness == ~dirExists /\ pc = "returned_missing"

\* C2 as stated: every response the server sends carries
\* Access-Control-Allow-Origin: *.
C2_EveryResponseHasAllowOrigin ==
    response # NoResponse =>
        HasHeader(response, "Access-Control-Allow-Origin", "*")

\* C2 amended: every response sent with a status line and header block
\* carries Access-Control-Allow-Origin: *; the only responses without it
\* are those the handler sends as HTTP/0.9, which carry no header at all.
C2_HeaderBlockHasAllowOrigin ==
    response # NoResponse =>
        IF response.statusLine
        THEN /\ response.flushed
             /\ HasHeader(response, "Access-Control-Allow-Origin", "*")
        ELSE /\ response.request_version = "HTTP/0.9"
             /\ response.headers = <<>>

C2_Witness ==
    /\ response.code = 501
    /\ HasHeader(response, "Access-Control-Allow-Origin", "*")

\* C3: an interrupt delivered while the server is in serve_forever leads to
\* a terminated process whose listening socket is closed.
C3_InterruptWhileServingStops ==
    (LastSignal = "serve") ~> (pc \in Terminal /\ socket = "closed")

C3_Witness ==
    /\ pc = "returned"
    /\ socket = "closed"
    /\ \E i \in 1..Len(signals) : signals[i] = "serve"

\* C4: when the browser launch fails (webbrowser.open raises or reports
\* that no browser was available) and no interrupt was delivered, the
\* process is in the serve loop with the socket listening, and a request
\* can be answered.
C4_BrowserFailureStillServes ==
    (browserResult \in {"unavailable", "raised"} /\ signals = <<>>) =>
        /\ pc = "serve"
        /\ socket = "listening"
        /\ ENABLED ServeRequest

C4_Witness ==
    /\ browserResult = "unavailable"
    /\ response.code = 200
    /\ response.body

\* C5 as stated: in preview-server.py every response carries
\* Access-Control-Allow-Methods and Access-Control-Allow-Headers.
C5_EveryResponseHasExtendedHeaders ==
    (script = "preview-server" /\ response # NoResponse) =>
        /\ HasHeader(response, "Access-Control-Allow-Methods",
                     "GET, POST, OPTIONS")
        /\ HasHeader(response, "Access-Control-Allow-Headers",
                     "Content-Type")

\* C5 amended: in preview-server.py every response sent with a status line
\* and header block carries Access-Control-Allow-Methods: GET, POST, OPTIONS
\* and Access-Control-Allow-Headers: Content-Type, with no other value for
\* either name; in preview-aws.py no response carries either name, and a
\* response with a header block carries Access-Control-Allow-Origin.
C5_HeaderBlockHasExtendedHeaders ==
    LET named(k) == { response.headers[i][2] :
                        i \in { j \in 1..Len(response.headers) :
                                  response.headers[j][1] = k } }
    IN response.statusLine =>
         IF script = "preview-server"
         THEN /\ named("Access-Control-Allow-Methods")
                    = {"GET, POST, OPTIONS"}
              /\ named("Access-Control-Allow-Headers") = {"Content-Type"}
         ELSE /\ named("Access-Control-Allow-Methods") = {}
              /\ named("Access-Control-Allow-Headers") = {}
              /\ named("Access-Control-Allow-Origin") = {"*"}

C5_Witness ==
    /\ script = "preview-server"
    /\ response.code = 404
    /\ HasHeader(response, "Access-Control-Allow-Methods",
                 "GET, POST, OPTIONS")
    /\ HasHeader(response, "Access-Control-Allow-Headers", "Content-Type")

\* C6 as stated: whenever the browser launch failed, the fallback line was
\* printed and the "Opening" line was not.
C6_LaunchFailurePrintsFallback ==
    (browserResult \in {"unavailable", "raised"} /\ signals = <<>>) =>
        /\ Printed(FallbackLine(script))
        /\ ~Printed(OpeningLine(script))

\* C7 as stated: after an interrupt delivered once the listener is bound,
\* the server does not go on starting or serving, and the run ends with the
\* farewell printed, the socket closed and no exception leaving main().
C7_InterruptExitsCleanly ==
    InterruptedAfterBind =>
        /\ pc \notin {"banner", "browser", "serve"}
        /\ pc \in Terminal =>
              /\ Printed(FarewellLine)
              /\ socket = "closed"
              /\ exc = "none"

\* C8: the lifecycle only takes the transitions NotStarted -> Validating ->
\* (Failed | Listening) -> (Serving)* -> ShuttingDown -> Stopped; Listening
\* and Serving are reached only when the directory exists, nothing leaves
\* Failed or Stopped, and a terminated run is in Failed or Stopped.
C8_LifecycleTransitions ==
    /\ [](Lifecycle \in {"Listening", "Serving"} =>
              dirExists /\ socket = "listening")
    /\ [](pc \in Terminal <=> Lifecycle \in {"Failed", "Stopped"})
    /\ [][(Lifecycle' # Lifecycle) =>
              (Lifecycle' \in LifecycleNext(Lifecycle))]_vars
    /\ [][(Lifecycle \in {"Failed", "Stopped"}) => (vars' = vars)]_vars

C8_Witness ==
    /\ Lifecycle = "Stopped"
    /\ response # NoResponse
    /\ Printed(FarewellLine)

\* C9: server_close() is never called twice, and a run that bound the
\* socket and has left main(), by return or by exception, closed it
\* once; no terminated run leaves the socket listening.
C9_SocketClosedExactlyOnce ==
    /\ closeCount <= 1
    /\ socket = "listening" => closeCount = 0 /\ bound
    /\ pc \in Terminal => socket # "listening"
    /\ (bound /\ pc \in Terminal) => (closeCount = 1 /\ socket = "closed")

C9_Witness ==
    /\ bound
    /\ pc = "unhandled"
    /\ exc = "KeyboardInterrupt"
    /\ closeCount = 1

\* C10: when constructing the listener fails, the exception leaves main()
\* at once: the process is terminated, never listened, launched no browser,
\* answered no request and printed neither the fallback nor the farewell.
C10_BindFailurePropagates ==
    exc = "OSError" =>
        /\ pc = "unhandled"
        /\ ~bound
        /\ socket # "listening"
        /\ browserResult = "none"
        /\ response = NoResponse
        /\ ~Printed(FallbackLine(script))
        /\ ~Printed(OpeningLine(script))
        /\ ~Printed(FarewellLine)

C10_Witness == exc = "OSError" /\ pc = "unhandled" /\ dirExists

====
